---- MODULE Spec2Model ----
(***************************************************************************)
(* Document Processing API: /summarize and /convert-to-word.               *)
(*                                                                         *)
(* The repository holds three copies of the service:                       *)
(*   "main"    : src/main.py                                               *)
(*   "app"     : src/app/ (routes/document.py and services/, utils/)       *)
(*   "FastAPI" : src/FastAPI/main.py                                       *)
(* The variable `variant` says which copy is deployed.                     *)
(*                                                                         *)
(* A text is a sequence of one-character strings.                          *)
(***************************************************************************)
EXTENDS Integers, Sequences, FiniteSets, TLC

VARIABLES
  variant,      \* which copy of the service runs
  cl_pc,        \* clean_text harness: "in" | "once" | "twice" | "off"
  cl_in,        \* the text handed to clean_text
  cl_out,       \* clean_text(cl_in)
  cl_out2,      \* clean_text(clean_text(cl_in))
  gs_pc,        \* generate_summary: "off" | "start" | "loop" | "returned" | "raised"
  gs_text,      \* its argument
  gs_chunks,    \* the list `chunks`
  gs_i,         \* the index in `chunks` of the chunk the loop is at
  gs_calls,     \* the chunks handed to the summarization model, in call order
  gs_summaries, \* the summary_text of each call, in call order
  gs_result,    \* the string generate_summary returned
  pc,           \* where the request handler is: "idle", ..., "done"
  req,          \* the request being handled
  resp,         \* the response sent, once pc = "done"
  log,          \* what the handler has done so far, in order
  extracted,    \* extracted_text
  docx_url,     \* docx_url
  upl,          \* what cloudinary.uploader.upload did in this request
  exc,          \* the exception a try block is unwinding with, if any
  temp_dir,     \* the request's temporary directory (0: none made)
  fs,           \* the paths that exist under /tmp
  fs0,          \* fs when the request arrived
  nreq          \* the requests received so far

clVars == <<cl_pc, cl_in, cl_out, cl_out2>>
gsVars == <<gs_pc, gs_text, gs_chunks, gs_i, gs_calls, gs_summaries, gs_result>>
rqVars == <<pc, req, resp, log, extracted, docx_url, upl, exc, temp_dir, fs, fs0, nreq>>
vars == <<variant, clVars, gsVars, rqVars>>

Variants == {"main", "app", "FastAPI"}

(***************************************************************************)
(* Characters.                                                             *)
(***************************************************************************)
\* Python's \s and str.strip()/str.split() whitespace
Whitespace == {" ", "\n"}
\* the character class [.,!?] of the regular expressions
Punct == {".", ",", "!", "?"}
\* Python's \w: here a letter
WordChars == {"a", "b"}

IsSpace(c) == c \in Whitespace
IsPunct(c) == c \in Punct
IsWord(c) == c \in WordChars

\* marks a position a substitution deletes
DROP == "<drop>"

Keep(c) == c # DROP

\* the sequence e without its deleted positions
Compact(e) == SelectSeq(e, Keep)

(***************************************************************************)
(* re.sub(r'\s+', ' ', text): every maximal run of whitespace becomes one  *)
(* space.                                                                  *)
(***************************************************************************)
CollapseWhitespace(s) ==
  Compact([i \in 1..Len(s) |->
             IF IsSpace(s[i])
               THEN IF i > 1 /\ IsSpace(s[i-1]) THEN DROP ELSE " "
               ELSE s[i]])

(***************************************************************************)
(* str.strip(): leading and trailing whitespace removed.                   *)
(***************************************************************************)
RECURSIVE LeadingSpaces(_, _)
LeadingSpaces(s, i) ==
  IF i <= Len(s) /\ IsSpace(s[i]) THEN 1 + LeadingSpaces(s, i + 1) ELSE 0

RECURSIVE TrailingSpaces(_, _)
TrailingSpaces(s, i) ==
  IF i >= 1 /\ IsSpace(s[i]) THEN 1 + TrailingSpaces(s, i - 1) ELSE 0

Strip(s) ==
  LET lo == LeadingSpaces(s, 1)
  IN  IF lo = Len(s) THEN <<>>
      ELSE SubSeq(s, lo + 1, Len(s) - TrailingSpaces(s, Len(s)))

(***************************************************************************)
(* re.sub(r'\s+([.,!?])', r'\1', text): a whitespace run that ends at a    *)
(* punctuation character is deleted (\s+ is greedy and the character after *)
(* it must be punctuation, so a match is a whole tail of a run).           *)
(***************************************************************************)
RECURSIVE RunEndsAtPunct(_, _)
RunEndsAtPunct(s, i) ==
  IF i > Len(s) THEN FALSE
  ELSE IF IsSpace(s[i]) THEN RunEndsAtPunct(s, i + 1)
  ELSE IsPunct(s[i])

RemoveSpaceBeforePunctNoop(s) == s

RemoveSpaceBeforePunct(s) ==
  Compact([i \in 1..Len(s) |->
             IF IsSpace(s[i]) /\ RunEndsAtPunct(s, i) THEN DROP ELSE s[i]])

(***************************************************************************)
(* re.sub(r'([.,!?])(\w)', r'\1 \2', text): a space is inserted between a  *)
(* punctuation character and a word character that follows it at once.     *)
(* Position 2i-1 holds s[i], position 2i the inserted space, if any.       *)
(***************************************************************************)
SpaceAfterPunctAlways(s) ==
  Compact([j \in 1..(2 * Len(s)) |->
             LET i == (j + 1) \div 2
             IN  IF j % 2 = 1 THEN s[i]
                 ELSE IF IsPunct(s[i]) THEN " " ELSE DROP])

SpaceAfterPunct(s) ==
  Compact([j \in 1..(2 * Len(s)) |->
             LET i == (j + 1) \div 2
             IN  IF j % 2 = 1 THEN s[i]
                 ELSE IF IsPunct(s[i]) /\ i < Len(s) /\ IsWord(s[i+1])
                        THEN " " ELSE DROP])

(***************************************************************************)
(* clean_text                                                              *)
(***************************************************************************)
\* src/main.py and src/app/utils/text.py
clean_text_two(s) == RemoveSpaceBeforePunct(Strip(CollapseWhitespace(s)))

\* src/FastAPI/main.py
clean_text_three(s) ==
  Strip(SpaceAfterPunct(RemoveSpaceBeforePunct(CollapseWhitespace(s))))

clean_text(v, s) ==
  IF v = "FastAPI" THEN clean_text_three(s) ELSE clean_text_two(s)

(***************************************************************************)
(* The clean_text harness: every text up to MaxLen characters is cleaned   *)
(* once, and the result cleaned again.                                     *)
(***************************************************************************)
MaxLen == 5

Alphabet == {" ", "\n", ".", "?", "a", "-"}

TextsUpTo(n) == UNION {[1..k -> Alphabet] : k \in 0..n}

CleanOff ==
  /\ cl_pc = "off" /\ cl_in = <<>> /\ cl_out = <<>> /\ cl_out2 = <<>>

GsOff ==
  /\ gs_pc = "off" /\ gs_text = <<>> /\ gs_chunks = <<>> /\ gs_i = 0
  /\ gs_calls = <<>> /\ gs_summaries = <<>> /\ gs_result = <<>>

NoResponse ==
  [status |-> 0, detail |-> <<>>, filename |-> <<>>, summary |-> <<>>,
   docx_url |-> <<>>]

NoRequest ==
  [endpoint |-> "", content_type |-> "", filename |-> <<>>,
   contents |-> [valid |-> TRUE, parts |-> <<>>]]

\* extracted_text before it is assigned
Unset == <<"<unset>">>

RqOff ==
  /\ pc = "off" /\ req = NoRequest /\ resp = NoResponse /\ log = <<>>
  /\ extracted = Unset /\ docx_url = <<>> /\ upl = "" /\ exc = NoResponse
  /\ temp_dir = 0 /\ fs = {} /\ fs0 = {} /\ nreq = 0

InitClean ==
  /\ variant \in Variants
  /\ cl_pc = "in"
  /\ cl_in \in TextsUpTo(MaxLen)
  /\ cl_out = <<>>
  /\ cl_out2 = <<>>
  /\ GsOff
  /\ RqOff

CleanOnce ==
  /\ cl_pc = "in"
  /\ cl_out' = clean_text(variant, cl_in)
  /\ cl_pc' = "once"
  /\ UNCHANGED <<variant, cl_in, cl_out2, gsVars, rqVars>>

CleanTwice ==
  /\ cl_pc = "once"
  /\ cl_out2' = clean_text(variant, cl_out)
  /\ cl_pc' = "twice"
  /\ UNCHANGED <<variant, cl_in, cl_out, gsVars, rqVars>>

NextClean == CleanOnce \/ CleanTwice

SpecClean == InitClean /\ [][NextClean]_vars

(***************************************************************************)
(* Properties of clean_text                                                *)
(***************************************************************************)
\* C8: clean_text is idempotent: cleaning a cleaned text changes nothing,
\* in the two-step and in the three-step variant.
C8_Idempotent == cl_pc = "twice" => cl_out2 = cl_out

C8_Witness ==
  /\ cl_pc = "twice"
  /\ cl_in = <<" ", " ", ".", "a">>
  /\ cl_out # cl_in

\* C9: the output of clean_text has no two consecutive whitespace
\* characters and no whitespace character just before . , ! or ?
C9_Normalized ==
  cl_pc \in {"once", "twice"} =>
    \A i \in 1..(Len(cl_out) - 1) :
      cl_out[i] \in {" ", "\n"} =>
        cl_out[i+1] \notin {" ", "\n", ".", ",", "!", "?"}

C9_Witness ==
  /\ cl_pc = "once"
  /\ cl_in = <<"a", " ", " ", "?">>
  /\ cl_out = <<"a", "?">>

(***************************************************************************)
(* generate_summary                                                        *)
(***************************************************************************)
\* max_chunk_length
MaxChunkLength == 1024
\* the word threshold of `len(chunk.split()) >= 50`
MinWords == 50

Min(a, b) == IF a < b THEN a ELSE b

\* range(0, n, step), as the sequence of its values
Range0(n, step) == [k \in 1..((n + step - 1) \div step) |-> (k - 1) * step]

\* text[i:j] for 0 <= i <= j: a slice stops at the end of the text
Slice(text, i, j) == SubSeq(text, i + 1, Min(j, Len(text)))

\* [text[i:i + max_chunk_length] for i in range(0, len(text), max_chunk_length)]
Chunks(text) ==
  LET starts == Range0(Len(text), MaxChunkLength)
  IN  [k \in 1..Len(starts) |->
         Slice(text, starts[k], starts[k] + MaxChunkLength)]

\* len(chunk.split()): the number of maximal runs of non-whitespace
WordCount(s) ==
  Cardinality({i \in 1..Len(s) :
                 ~IsSpace(s[i]) /\ (i = 1 \/ IsSpace(s[i-1]))})

QualifiesStrict(chunk) == WordCount(chunk) > MinWords

\* the filter `if len(chunk.split()) >= 50`
Qualifies(chunk) == WordCount(chunk) >= MinWords

\* sep.join(parts)
RECURSIVE Join(_, _)
Join(parts, sep) ==
  IF parts = <<>> THEN <<>>
  ELSE IF Len(parts) = 1 THEN parts[1]
  ELSE parts[1] \o sep \o Join(Tail(parts), sep)

\* What the summarization model may answer for a chunk: the model is a
\* black box, so any of these strings, the empty one included.
Fragments == {<<>>, <<"a">>, <<"b", ".">>}

GsSlice ==
  /\ gs_pc = "start"
  /\ gs_chunks' = Chunks(gs_text)
  /\ gs_i' = 1
  /\ gs_pc' = "loop"
  /\ UNCHANGED <<gs_text, gs_calls, gs_summaries, gs_result, variant, clVars, rqVars>>

\* a chunk below the threshold is passed over
GsSkip ==
  /\ gs_pc = "loop"
  /\ gs_i <= Len(gs_chunks)
  /\ ~Qualifies(gs_chunks[gs_i])
  /\ gs_i' = gs_i + 1
  /\ UNCHANGED <<gs_pc, gs_text, gs_chunks, gs_calls, gs_summaries, gs_result,
                 variant, clVars, rqVars>>

\* summarizer(chunk, max_length=130, min_length=30, do_sample=False)[0]['summary_text']
GsSummarize ==
  /\ gs_pc = "loop"
  /\ gs_i <= Len(gs_chunks)
  /\ Qualifies(gs_chunks[gs_i])
  /\ gs_calls' = Append(gs_calls, gs_chunks[gs_i])
  /\ \E f \in Fragments : gs_summaries' = Append(gs_summaries, f)
  /\ gs_i' = gs_i + 1
  /\ UNCHANGED <<gs_pc, gs_text, gs_chunks, gs_result, variant, clVars, rqVars>>

\* the model raises: generate_summary does not return
GsSummarizeRaises ==
  /\ gs_pc = "loop"
  /\ gs_i <= Len(gs_chunks)
  /\ Qualifies(gs_chunks[gs_i])
  /\ gs_calls' = Append(gs_calls, gs_chunks[gs_i])
  /\ gs_pc' = "raised"
  /\ UNCHANGED <<gs_text, gs_chunks, gs_i, gs_summaries, gs_result,
                 variant, clVars, rqVars>>

\* " ".join(...)
GsJoin ==
  /\ gs_pc = "loop"
  /\ gs_i > Len(gs_chunks)
  /\ gs_result' = Join(gs_summaries, <<" ">>)
  /\ gs_pc' = "returned"
  /\ UNCHANGED <<gs_text, gs_chunks, gs_i, gs_calls, gs_summaries,
                 variant, clVars, rqVars>>


(***************************************************************************)
(* The generate_summary harness: the function runs on texts put together   *)
(* from at most MaxSegs segments, chosen so that chunks fall on both sides *)
(* of the word threshold and texts on both sides of a chunk boundary.      *)
(***************************************************************************)
MaxSegs == 3

Rep(unit, n) == [i \in 1..(n * Len(unit)) |-> unit[((i - 1) % Len(unit)) + 1]]

Segments ==
  { Rep(<<"a", " ">>, MinWords),                      \* 50 words
    Rep(<<"a", " ">>, MinWords - 1),                  \* 49 words
    Rep(<<"a">>, MaxChunkLength),                     \* one word, one chunk long
    \* one chunk long: 50 words, then one long word
    Rep(<<"a", " ">>, MinWords) \o Rep(<<"a">>, MaxChunkLength - 2 * MinWords),
    <<"b">> }

RECURSIVE SegTexts(_)
SegTexts(n) ==
  IF n = 0 THEN {<<>>}
  ELSE LET shorter == SegTexts(n - 1)
       IN  shorter \cup {t \o g : t \in shorter, g \in Segments}

InitSummary ==
  /\ variant \in Variants
  /\ CleanOff
  /\ gs_pc = "start"
  /\ gs_text \in SegTexts(MaxSegs)
  /\ gs_chunks = <<>>
  /\ gs_i = 0
  /\ gs_calls = <<>>
  /\ gs_summaries = <<>>
  /\ gs_result = <<>>
  /\ RqOff

NextSummary == GsSlice \/ GsSkip \/ GsSummarize \/ GsSummarizeRaises \/ GsJoin

SpecSummary == InitSummary /\ [][NextSummary]_vars

(***************************************************************************)
(* Properties of generate_summary                                          *)
(***************************************************************************)
\* the number of words of s, counted at the last character of each word
C10_Words(s) ==
  Cardinality({i \in 1..Len(s) :
                 s[i] \notin {" ", "\n"}
                 /\ (i = Len(s) \/ s[i+1] \in {" ", "\n"})})

C10_Retained(c) == C10_Words(c) >= 50

\* where fragment k starts in the joined result, less one
RECURSIVE C10_Offset(_, _)
C10_Offset(frags, k) ==
  IF k = 1 THEN 0 ELSE C10_Offset(frags, k - 1) + Len(frags[k - 1]) + 1

\* C10: for a text of length L, generate_summary makes ceil(L/1024)
\* non-overlapping chunks whose concatenation is the text, calls the
\* summarizer once for each chunk of at least 50 words, in chunk order, and
\* for no other chunk, and returns the fragments joined by single spaces in
\* that order.
C10_ChunkedSummary ==
  gs_pc = "returned" =>
    LET L == Len(gs_text)
        n == Len(gs_chunks)
        m == Len(gs_summaries)
    IN  /\ n = (L + 1023) \div 1024
        /\ \A k \in 1..n :
             Len(gs_chunks[k]) = IF k < n THEN 1024 ELSE L - 1024 * (n - 1)
        /\ \A p \in 1..L :
             gs_chunks[((p - 1) \div 1024) + 1][((p - 1) % 1024) + 1] = gs_text[p]
        /\ gs_calls = SelectSeq(gs_chunks, C10_Retained)
        /\ m = Len(gs_calls)
        /\ Len(gs_result) = IF m = 0 THEN 0 ELSE C10_Offset(gs_summaries, m + 1) - 1
        /\ \A k \in 1..m :
             /\ \A q \in 1..Len(gs_summaries[k]) :
                  gs_result[C10_Offset(gs_summaries, k) + q] = gs_summaries[k][q]
             /\ k < m => gs_result[C10_Offset(gs_summaries, k + 1)] = " "

\* a text of three chunks, the first with 51 words, the second with one
\* word, the third with 50: two calls, two fragments joined
C10_Witness ==
  /\ gs_pc = "returned"
  /\ Len(gs_text) = 2148
  /\ Len(gs_chunks) = 3
  /\ Len(gs_calls) = 2
  /\ gs_calls[1] = gs_chunks[1]
  /\ gs_calls[2] = gs_chunks[3]
  /\ gs_result = <<"a", " ", "b", ".">>

(***************************************************************************)
(* The HTTP service                                                        *)
(***************************************************************************)
\* The keys of ALLOWED_MIME_TYPES, in the order the dict holds them
\* (src/main.py and src/FastAPI/main.py).
ALLOWED_MIME_TYPES ==
  << "application/pdf",
     "text/plain",
     "application/msword",
     "application/vnd.openxmlformats-officedocument.wordprocessingml.document" >>

\* settings.ALLOWED_MIME_TYPES of src/app: app/config.py is not among the
\* sources; the accepted types are those the specification lists.
SettingsAllowedMimeTypes ==
  { "application/pdf",
    "text/plain",
    "application/msword",
    "application/vnd.openxmlformats-officedocument.wordprocessingml.document" }

Range(f) == {f[i] : i \in DOMAIN f}

\* `file.content_type not in ALLOWED_MIME_TYPES`, negated
TypeAllowed(v, t) ==
  IF v = "app" THEN t \in SettingsAllowedMimeTypes
  ELSE t \in Range(ALLOWED_MIME_TYPES)

\* the detail of the HTTPException raised for another content type
UnsupportedDetail(v) ==
  IF v = "FastAPI"
    THEN <<"Unsupported file type. Allowed types: ">> \o ALLOWED_MIME_TYPES
    ELSE <<"Unsupported file type.">>

\* Python's None, where a string may stand
None == <<"<None>">>

\* Python's `not x` for a string or None
FalsyNoneOnly(x) == x = None

Falsy(x) == x = <<>> \/ x = None

\* str.endswith
EndsWith(s, suffix) ==
  /\ Len(s) >= Len(suffix)
  /\ SubSeq(s, Len(s) - Len(suffix) + 1, Len(s)) = suffix

DotPdf == <<".", "p", "d", "f">>

HasDotPdf(filename) ==
  \E i \in 1..(Len(filename) - 3) : SubSeq(filename, i, i + 3) = DotPdf

\* file.filename.endswith('.pdf')
IsPdfName(filename) == EndsWith(filename, DotPdf)

\* raise HTTPException(status_code=..., detail=...)
HTTPException(status, detail) ==
  [NoResponse EXCEPT !.status = status, !.detail = detail]

\* an exception no handler catches: the framework answers 500
InternalServerError == HTTPException(500, <<"Internal Server Error">>)

(***************************************************************************)
(* The extractors.  The uploaded bytes are described by what the library   *)
(* chosen for the content type makes of them: whether it can read them     *)
(* (valid UTF-8, a well-formed PDF or DOCX) and the texts it yields (the   *)
(* pages, the paragraphs, the decoded text in pieces).                     *)
(* An extractor returns [raised, text].                                    *)
(***************************************************************************)
Raised == [raised |-> TRUE, text |-> <<>>]
Returned(t) == [raised |-> FALSE, text |-> t]

\* text += clean_text(page_text) + " " for every page with text
RECURSIVE PagesText(_, _)
PagesText(v, pages) ==
  IF pages = <<>> THEN <<>>
  ELSE (IF Head(pages) # <<>> THEN clean_text(v, Head(pages)) \o <<" ">> ELSE <<>>)
       \o PagesText(v, Tail(pages))

\* text += paragraph.text + " " for every paragraph
RECURSIVE ParagraphsText(_)
ParagraphsText(paragraphs) ==
  IF paragraphs = <<>> THEN <<>>
  ELSE Head(paragraphs) \o <<" ">> \o ParagraphsText(Tail(paragraphs))

extract_text_from_pdf(v, contents) ==
  IF ~contents.valid THEN Raised
  ELSE IF v = "FastAPI"
    THEN Returned(clean_text(v, PagesText(v, contents.parts)))
    ELSE Returned(clean_text(v, Join(contents.parts, <<" ">>)))

\* src/app reads doc.paragraph, which a docx Document does not have: the
\* AttributeError is raised for every document
extract_text_from_docx(v, contents) ==
  IF ~contents.valid THEN Raised
  ELSE IF v = "app" THEN Raised
  ELSE IF v = "FastAPI"
    THEN Returned(clean_text(v, ParagraphsText(contents.parts)))
    ELSE Returned(clean_text(v, Join(contents.parts, <<" ">>)))

\* file_bytes.decode('utf-8') raises UnicodeDecodeError on invalid bytes
extract_text_from_txt(v, contents) ==
  IF ~contents.valid THEN Raised
  ELSE Returned(clean_text(v, Join(contents.parts, <<>>)))

\* the dispatch on file.content_type
Extractor(content_type) ==
  IF content_type = "application/pdf" THEN "extract_text_from_pdf"
  ELSE IF content_type = "text/plain" THEN "extract_text_from_txt"
  ELSE "extract_text_from_docx"

Extract(v, content_type, contents) ==
  IF Extractor(content_type) = "extract_text_from_pdf"
    THEN extract_text_from_pdf(v, contents)
  ELSE IF Extractor(content_type) = "extract_text_from_txt"
    THEN extract_text_from_txt(v, contents)
  ELSE extract_text_from_docx(v, contents)

(***************************************************************************)
(* Requests                                                                *)
(***************************************************************************)
MaxRequests == 2

ContentTypes == Range(ALLOWED_MIME_TYPES) \cup {"image/png"}

Filenames ==
  { <<"a", ".", "p", "d", "f">>,
    <<"a", ".", "t", "x", "t">>,
    <<"a", ".", "P", "D", "F">>,
    <<"a", ".", "p", "d", "f", ".", "d", "o", "c", "x">>,
    <<"p", "d", "f">> }

Contents ==
  { [valid |-> FALSE, parts |-> <<>>],
    [valid |-> TRUE, parts |-> <<>>],
    [valid |-> TRUE, parts |-> << <<" ", "\n">> >>],
    [valid |-> TRUE, parts |-> << <<"a", " ", " ", ".", "b">> >>],
    \* 50 words once cleaned
    [valid |-> TRUE, parts |-> << Rep(<<"a", " ", "\n">>, MinWords) >>],
    \* 49 words and one more on a second page
    [valid |-> TRUE, parts |-> << Rep(<<"a", " ">>, MinWords - 1), <<"b", " ", "?">> >>],
    \* two chunks, each above the threshold
    [valid |-> TRUE, parts |-> << Rep(<<"a", " ">>, MaxChunkLength - 400) >>] }

SummarizeRequests ==
  [endpoint : {"/summarize"}, content_type : ContentTypes,
   filename : {<<"a", ".", "p", "d", "f">>, <<"a", ".", "t", "x", "t">>},
   contents : Contents]

ConvertRequests ==
  [endpoint : {"/convert-to-word"}, content_type : {"application/pdf"},
   filename : Filenames, contents : {[valid |-> TRUE, parts |-> <<>>]}]

Init ==
  /\ variant \in Variants
  /\ CleanOff
  /\ GsOff
  /\ pc = "idle" /\ req = NoRequest /\ resp = NoResponse /\ log = <<>>
  /\ extracted = Unset /\ docx_url = <<>> /\ upl = "" /\ exc = NoResponse
  /\ temp_dir = 0 /\ fs = {} /\ fs0 = {} /\ nreq = 0

\* a request arrives; every request runs from a fresh handler frame
Receive ==
  /\ pc \in {"idle", "done"}
  /\ nreq < MaxRequests
  /\ req' \in SummarizeRequests \cup ConvertRequests
  /\ pc' = IF req'.endpoint = "/summarize" THEN "summarize" ELSE "convert"
  /\ nreq' = nreq + 1
  /\ resp' = NoResponse /\ log' = <<>> /\ extracted' = Unset
  /\ docx_url' = <<>> /\ upl' = "" /\ exc' = NoResponse /\ temp_dir' = 0
  /\ fs0' = fs
  /\ gs_pc' = "off" /\ gs_text' = <<>> /\ gs_chunks' = <<>> /\ gs_i' = 0
  /\ gs_calls' = <<>> /\ gs_summaries' = <<>> /\ gs_result' = <<>>
  /\ UNCHANGED <<variant, clVars, fs>>

\* the response goes out
Respond(r) ==
  /\ resp' = r
  /\ pc' = "done"

(***************************************************************************)
(* POST /summarize                                                         *)
(***************************************************************************)
\* if file.content_type not in ALLOWED_MIME_TYPES: raise HTTPException(400)
SummarizeCheckType ==
  /\ pc = "summarize"
  /\ IF TypeAllowed(variant, req.content_type)
       THEN pc' = "read" /\ UNCHANGED resp
       ELSE Respond(HTTPException(400, UnsupportedDetail(variant)))
  /\ UNCHANGED <<variant, clVars, gsVars, req, log, extracted, docx_url, upl,
                 exc, temp_dir, fs, fs0, nreq>>

\* contents = await file.read()
SummarizeRead ==
  /\ pc = "read"
  /\ log' = Append(log, "read")
  /\ pc' = "extract"
  /\ UNCHANGED <<variant, clVars, gsVars, req, resp, extracted, docx_url, upl,
                 exc, temp_dir, fs, fs0, nreq>>

\* extracted_text = extractors[file.content_type](contents)
SummarizeExtract ==
  /\ pc = "extract"
  /\ log' = Append(log, Extractor(req.content_type))
  /\ LET r == Extract(variant, req.content_type, req.contents)
     IN  IF r.raised
           THEN Respond(InternalServerError) /\ UNCHANGED extracted
           ELSE extracted' = r.text /\ pc' = "check_text" /\ UNCHANGED resp
  /\ UNCHANGED <<variant, clVars, gsVars, req, docx_url, upl, exc, temp_dir,
                 fs, fs0, nreq>>

\* if not extracted_text: raise HTTPException(400);
\* else summary = generate_summary(extracted_text) begins
SummarizeCheckText ==
  /\ pc = "check_text"
  /\ IF Falsy(extracted)
       THEN /\ Respond(HTTPException(400, <<"No text extracted">>))
            /\ UNCHANGED gsVars
       ELSE /\ pc' = "generate_summary"
            /\ gs_pc' = "start"
            /\ gs_text' = extracted
            /\ UNCHANGED <<resp, gs_chunks, gs_i, gs_calls, gs_summaries, gs_result>>
  /\ UNCHANGED <<variant, clVars, req, log, extracted, docx_url, upl, exc,
                 temp_dir, fs, fs0, nreq>>

\* the summarization model raised inside generate_summary
SummarizeModelRaised ==
  /\ pc = "generate_summary"
  /\ gs_pc = "raised"
  /\ Respond(InternalServerError)
  /\ UNCHANGED <<variant, clVars, gsVars, req, log, extracted, docx_url, upl,
                 exc, temp_dir, fs, fs0, nreq>>

\* if not summary: raise HTTPException(400);
\* return {"filename": file.filename, "summary": summary}
SummarizeReturn ==
  /\ pc = "generate_summary"
  /\ gs_pc = "returned"
  /\ IF Falsy(gs_result)
       THEN Respond(HTTPException(400, <<"Could not generate summary">>))
       ELSE Respond([NoResponse EXCEPT !.status = 200,
                                       !.filename = req.filename,
                                       !.summary = gs_result])
  /\ UNCHANGED <<variant, clVars, gsVars, req, log, extracted, docx_url, upl,
                 exc, temp_dir, fs, fs0, nreq>>

(***************************************************************************)
(* POST /convert-to-word                                                   *)
(***************************************************************************)
\* temp_dir, pdf_path and docx_path of request number n
TempDir(n) == <<n>>
PdfPath(n) == <<n, "input.pdf">>
DocxPath(v, n) == IF v = "app" THEN <<n, "output.pdf">> ELSE <<n, "output.docx">>

\* the answer of cloudinary.uploader.upload: a result with a secure_url, a
\* result without one, or cloudinary.exceptions.Error
UploadOutcomes == {"secure_url", "no_secure_url", "error"}

Url == <<"h", "t", "t", "p", "s", ":", "/", "/", "c", "/", "x">>

\* upload_to_cloudinary: [raised, text], text being the value returned
upload_to_cloudinary(v, outcome) ==
  IF v = "FastAPI"
    THEN CASE outcome = "secure_url"    -> Returned(Url)
           [] outcome = "no_secure_url" -> Raised          \* KeyError, not caught
           [] outcome = "error"         -> Returned(None)  \* caught and logged
    ELSE CASE outcome = "secure_url"    -> Returned(Url)
           [] outcome = "no_secure_url" -> Returned(<<>>)  \* result.get(..., '')
           [] outcome = "error"         -> Raised

\* the status of the HTTPException raised when docx_url is falsy
UploadFailedStatus(v) == IF v = "app" THEN 400 ELSE 500

\* whether the handler's work on the temporary directory is inside try/finally
HasFinally(v) == v # "main"

\* if not file.filename.endswith('.pdf'): raise HTTPException(400)
ConvertCheckName ==
  /\ pc = "convert"
  /\ IF IsPdfName(req.filename)
       THEN pc' = (IF variant = "app" THEN "convert_read" ELSE "mkdtemp")
            /\ UNCHANGED resp
       ELSE Respond(HTTPException(400, <<"Only PDF files are allowed">>))
  /\ UNCHANGED <<variant, clVars, gsVars, req, log, extracted, docx_url, upl,
                 exc, temp_dir, fs, fs0, nreq>>

\* src/app: contents = await file.read(), before convert_pdf_to_docx
ConvertRead ==
  /\ pc = "convert_read"
  /\ log' = Append(log, "read")
  /\ pc' = "mkdtemp"
  /\ UNCHANGED <<variant, clVars, gsVars, req, resp, extracted, docx_url, upl,
                 exc, temp_dir, fs, fs0, nreq>>

\* temp_dir = tempfile.mkdtemp(dir="/tmp"): a directory no other request has
ConvertMkdtemp ==
  /\ pc = "mkdtemp"
  /\ temp_dir' = nreq
  /\ fs' = fs \cup {TempDir(nreq)}
  /\ log' = Append(log, "mkdtemp")
  /\ pc' = "write"
  /\ UNCHANGED <<variant, clVars, gsVars, req, resp, extracted, docx_url, upl,
                 exc, fs0, nreq>>

\* with open(pdf_path, "wb") as pdf_file: pdf_file.write(...)
ConvertWrite ==
  /\ pc = "write"
  /\ fs' = fs \cup {PdfPath(temp_dir)}
  /\ log' = IF variant = "app" THEN Append(log, "write")
            ELSE log \o <<"read", "write">>
  /\ pc' = "converter"
  /\ UNCHANGED <<variant, clVars, gsVars, req, resp, extracted, docx_url, upl,
                 exc, temp_dir, fs0, nreq>>

\* an exception leaves the handler: through the finally block where there
\* is one, straight out where there is none
Unwind(e) ==
  /\ exc' = e
  /\ pc' = IF HasFinally(variant) THEN "cleanup" ELSE "raise"

\* cv = Converter(pdf_path); cv.convert(docx_path); cv.close()
\* The converter writes the output file, or raises before or after it did.
ConvertConverter ==
  /\ pc = "converter"
  /\ log' = Append(log, "converter")
  /\ \/ /\ fs' = fs \cup {DocxPath(variant, temp_dir)}
        /\ pc' = "upload"
        /\ UNCHANGED exc
     \/ /\ fs' \in {fs, fs \cup {DocxPath(variant, temp_dir)}}
        /\ Unwind(InternalServerError)
  /\ UNCHANGED <<variant, clVars, gsVars, req, resp, extracted, docx_url, upl,
                 temp_dir, fs0, nreq>>

\* docx_url = upload_to_cloudinary(docx_path)
ConvertUpload ==
  /\ pc = "upload"
  /\ log' = Append(log, "upload")
  /\ \E o \in UploadOutcomes :
       /\ upl' = o
       /\ LET r == upload_to_cloudinary(variant, o)
          IN  IF r.raised
                THEN Unwind(InternalServerError) /\ UNCHANGED docx_url
                ELSE /\ docx_url' = r.text
                     /\ pc' = (IF variant = "app" THEN "cleanup" ELSE "check_url")
                     /\ UNCHANGED exc
  /\ UNCHANGED <<variant, clVars, gsVars, req, resp, extracted, temp_dir, fs,
                 fs0, nreq>>

\* if not docx_url: raise HTTPException(...)
\* src/app does this in the route, after convert_pdf_to_docx has returned
ConvertCheckUrl ==
  /\ pc = "check_url"
  /\ LET failed == HTTPException(UploadFailedStatus(variant),
                                 <<"Failed to upload converted document">>)
     IN  IF Falsy(docx_url)
           THEN IF variant = "app"
                  THEN exc' = failed /\ pc' = "raise"
                  ELSE Unwind(failed)
           ELSE /\ pc' = (IF variant = "main" THEN "cleanup" ELSE
                          IF variant = "FastAPI" THEN "cleanup" ELSE "return")
                /\ UNCHANGED exc
  /\ UNCHANGED <<variant, clVars, gsVars, req, resp, log, extracted, docx_url,
                 upl, temp_dir, fs, fs0, nreq>>

\* src/main.py: os.remove(pdf_path); os.remove(docx_path); os.rmdir(temp_dir)
\* the others, in finally: each file removed if it exists, then the directory
ConvertCleanup ==
  /\ pc = "cleanup"
  /\ fs' = fs \ {PdfPath(temp_dir), DocxPath(variant, temp_dir), TempDir(temp_dir)}
  /\ log' = Append(log, "cleanup")
  /\ pc' = IF exc # NoResponse THEN "raise"
           ELSE IF variant = "app" THEN "check_url"
           ELSE "return"
  /\ UNCHANGED <<variant, clVars, gsVars, req, resp, extracted, docx_url, upl,
                 exc, temp_dir, fs0, nreq>>

\* return {"docx_url": docx_url}
ConvertReturn ==
  /\ pc = "return"
  /\ Respond([NoResponse EXCEPT !.status = 200, !.docx_url = docx_url])
  /\ UNCHANGED <<variant, clVars, gsVars, req, log, extracted, docx_url, upl,
                 exc, temp_dir, fs, fs0, nreq>>

\* the exception reaches the framework, which answers with it
ConvertRaise ==
  /\ pc = "raise"
  /\ Respond(exc)
  /\ UNCHANGED <<variant, clVars, gsVars, req, log, extracted, docx_url, upl,
                 exc, temp_dir, fs, fs0, nreq>>

Next ==
  \/ Receive
  \/ SummarizeCheckType
  \/ SummarizeRead
  \/ SummarizeExtract
  \/ SummarizeCheckText
  \/ GsSlice
  \/ GsSkip
  \/ GsSummarize
  \/ GsSummarizeRaises
  \/ GsJoin
  \/ SummarizeModelRaised
  \/ SummarizeReturn
  \/ ConvertCheckName
  \/ ConvertRead
  \/ ConvertMkdtemp
  \/ ConvertWrite
  \/ ConvertConverter
  \/ ConvertUpload
  \/ ConvertCheckUrl
  \/ ConvertCleanup
  \/ ConvertReturn
  \/ ConvertRaise

Spec == Init /\ [][Next]_vars

(***************************************************************************)
(* Properties of the service                                               *)
(***************************************************************************)
C_Summarize == req.endpoint = "/summarize"
C_Convert == req.endpoint = "/convert-to-word"
C_ClientError == resp.status \in 400..499
C_ServerError == resp.status \in 500..599

C_AcceptedTypes ==
  { "application/pdf", "text/plain", "application/msword",
    "application/vnd.openxmlformats-officedocument.wordprocessingml.document" }

\* the filename's last four characters are ".pdf"
C_PdfName ==
  LET n == Len(req.filename)
  IN  /\ n >= 4
      /\ req.filename[n - 3] = "." /\ req.filename[n - 2] = "p"
      /\ req.filename[n - 1] = "d" /\ req.filename[n] = "f"

\* C1: when a /convert-to-word request that passed the filename check
\* completes, its temporary directory and the files in it no longer exist.
C1_TempFilesRemoved ==
  (pc = "done" /\ C_Convert /\ C_PdfName) => \A path \in fs : path[1] # nreq

\* C2: /summarize never answers 200 with an empty summary; empty extracted
\* text and an empty Final Summary are answered with a client error.
C2_NoEmptySummary ==
  (pc = "done" /\ C_Summarize) =>
    /\ resp.status = 200 => (resp.summary # <<>> /\ resp.summary = gs_result)
    /\ extracted = <<>> => C_ClientError
    /\ (gs_pc = "returned" /\ gs_result = <<>>) => C_ClientError

\* a text with no chunk of 50 words: the Final Summary is empty
C2_Witness ==
  /\ pc = "done" /\ C_Summarize
  /\ extracted # <<>> /\ extracted # Unset
  /\ gs_pc = "returned" /\ gs_calls = <<>> /\ gs_result = <<>>
  /\ resp.status = 400

\* C3: a text/plain upload that is not valid UTF-8 is answered with a
\* client error (4xx).
C3_DecodeFailureIsClientError ==
  (pc = "done" /\ C_Summarize /\ req.content_type = "text/plain"
     /\ ~req.contents.valid) => C_ClientError

C5_OtherTypesRejected ==
  (pc = "done" /\ C_Summarize /\ req.content_type \notin C_AcceptedTypes) =>
    /\ C_ClientError
    /\ \A t \in C_AcceptedTypes : \E k \in 1..Len(resp.detail) : resp.detail[k] = t
    /\ log = <<>>
    /\ gs_calls = <<>>

RECURSIVE C6_TotalWords(_)
C6_TotalWords(parts) ==
  IF parts = <<>> THEN 0 ELSE C10_Words(Head(parts)) + C6_TotalWords(Tail(parts))

C6_MatchingExtractor ==
  IF req.content_type = "application/pdf" THEN "extract_text_from_pdf"
  ELSE IF req.content_type = "text/plain" THEN "extract_text_from_txt"
  ELSE "extract_text_from_docx"

\* C6: for each accepted content type, a document whose text has a chunk
\* of 50 words or more goes to the matching extractor and the request ends
\* in a success response with the filename and the summary (the
\* summarization model answering each chunk with a non-empty text).
C6_AcceptedTypesSucceed ==
  (/\ pc = "done" /\ C_Summarize
   /\ req.content_type \in C_AcceptedTypes
   /\ req.contents.valid
   /\ C6_TotalWords(req.contents.parts) >= 50
   /\ gs_pc # "raised"
   /\ \A k \in 1..Len(gs_summaries) : gs_summaries[k] # <<>>) =>
    /\ resp.status = 200
    /\ resp.filename = req.filename
    /\ resp.summary # <<>>
    /\ log = <<"read", C6_MatchingExtractor>>

\* C7: a /convert-to-word request whose filename does not end in .pdf is
\* rejected with a client error; no temporary directory or file is made,
\* neither the converter nor the uploader is called, and the files under
\* /tmp are what they were.
C7_NonPdfRejectedFirst ==
  (C_Convert /\ ~C_PdfName) =>
    /\ fs = fs0
    /\ log = <<>>
    /\ temp_dir = 0
    /\ pc \in {"convert", "done"}
    /\ pc = "done" => resp.status = 400

\* rejected while an earlier request's directory is still there
C7_Witness ==
  /\ pc = "done" /\ C_Convert
  /\ req.filename = <<"a", ".", "p", "d", "f", ".", "d", "o", "c", "x">>
  /\ resp.status = 400
  /\ fs # {}

====
